---- MODULE Spec2Model ----
(***************************************************************************)
(* Deadline recalculation engine of the Openserve milestone tracker:       *)
(* the business-day calendar (server/src/utils/businessDays, kept in       *)
(* src/server/src/middleware/auth.ts) and the project create / update      *)
(* handlers that store the deadlines it computes (src/unnamed/part_009).   *)
(*                                                                         *)
(* A Date is an integer: calendar day number (days since 1970-01-01, local *)
(* time) times TicksPerDay, plus the time of day in ticks.                 *)
(***************************************************************************)
EXTENDS Integers, Sequences, FiniteSets, TLC

\* ------------------------------------------------------------------ bounds
\* Time-of-day resolution: instants per calendar day.
TicksPerDay == 2
\* Largest allowedDays value a request or the settings table carries.
MaxDays == 2
\* Number of update requests handled after the project is created.
MaxRequests == 2
\* Largest number of business days a probing call asks addBusinessDays for.
MaxAdd == 3
\* Calendar days after 2022-12-22 from which probing calls take their dates.
ProbeSpan == 13
\* Calendar days the clock runs on after 2022-12-30.
ClockDays == 4
\* Years after 2016 whose holiday list is asked for.
YearSpan == 12

\* --------------------------------------------------- Date and date-fns
\* new Date(year, month, day): local midnight of a civil date; month is
\* 0-based as in JavaScript.  Day count by the proleptic Gregorian rule.
NewDate(year, month, day) ==
    LET m   == month + 1
        y   == IF m <= 2 THEN year - 1 ELSE year
        era == y \div 400
        yoe == y - era * 400
        mp  == IF m > 2 THEN m - 3 ELSE m + 9
        doy == (153 * mp + 2) \div 5 + day - 1
        doe == yoe * 365 + yoe \div 4 - yoe \div 100 + doy
    IN  (era * 146097 + doe - 719468) * TicksPerDay

startOfDay(date) == date - (date % TicksPerDay)

addDays(date, amount) == date + amount * TicksPerDay

isSameDay(a, b) == startOfDay(a) = startOfDay(b)

isBefore(a, b) == a < b

isAfter(a, b) == a > b

\* Date.prototype.getDay: 0 = Sunday .. 6 = Saturday (1970-01-01: Thursday).
getDay(date) == ((date \div TicksPerDay) + 4) % 7

isWeekend(date) == getDay(date) = 0 \/ getDay(date) = 6

\* date-fns getYear: the civil year of the calendar day.
getYear(date) ==
    LET z   == (date \div TicksPerDay) + 719468
        era == z \div 146097
        doe == z - era * 146097
        yoe == (doe - doe \div 1460 + doe \div 36524 - doe \div 146096) \div 365
        doy == doe - (365 * yoe + yoe \div 4 - yoe \div 100)
        mp  == (5 * doy + 2) \div 153
        m   == IF mp < 10 THEN mp + 3 ELSE mp - 9
    IN  yoe + era * 400 + (IF m <= 2 THEN 1 ELSE 0)

\* ------------------------------------------------------ Calendar oracle
getEasterSunday(year) ==
    LET a == year % 19
        b == year \div 100
        c == year % 100
        d == b \div 4
        e == b % 4
        f == (b + 8) \div 25
        g == (b - f + 1) \div 3
        h == (19 * a + b - d - g + 15) % 30
        i == c \div 4
        k == c % 4
        l == (32 + 2 * e + 2 * i - h - k) % 7
        m == (a + 11 * h + 22 * l) \div 451
        month == (h + l - 7 * m + 114) \div 31
        day   == ((h + l - 7 * m + 114) % 31) + 1
    IN  NewDate(year, month - 1, day)

getGoodFriday(year) == addDays(getEasterSunday(year), -2)

getFamilyDay(year) == addDays(getGoodFriday(year), 1)

\* (month, day) of the fixed holidays, month 0-based.
fixedHolidays ==
    << <<0, 1>>, <<2, 21>>, <<3, 27>>, <<4, 1>>, <<5, 16>>,
       <<7, 9>>, <<8, 24>>, <<11, 16>>, <<11, 25>>, <<11, 26>> >>

\* observedFixedHoliday that leaves a Sunday holiday on its Sunday.
fixedHolidayDate(year, holiday) ==
    startOfDay(NewDate(year, holiday[1], holiday[2]))

\* observedFixedHoliday that also moves a Saturday holiday to the Monday.
observedFixedHolidayWeekend(year, holiday) ==
    LET date == NewDate(year, holiday[1], holiday[2])
    IN  startOfDay(CASE getDay(date) = 0 -> addDays(date, 1)
                     [] getDay(date) = 6 -> addDays(date, 2)
                     [] OTHER -> date)

\* One fixed holiday of the year: moved to the Monday when it is a Sunday.
observedFixedHoliday(year, holiday) ==
    LET date == NewDate(year, holiday[1], holiday[2])
    IN  startOfDay(IF getDay(date) = 0 THEN addDays(date, 1) ELSE date)

\* getSAPublicHolidays that pushes the Sunday date as well as its Monday.
getSAPublicHolidaysWithSundays(year) ==
    { fixedHolidayDate(year, fixedHolidays[i]) : i \in DOMAIN fixedHolidays }
      \cup { observedFixedHoliday(year, fixedHolidays[i]) : i \in DOMAIN fixedHolidays }
      \cup { startOfDay(getGoodFriday(year)), startOfDay(getFamilyDay(year)) }

\* The holidays array, as the set of its elements.
getSAPublicHolidays(year) ==
    { observedFixedHoliday(year, fixedHolidays[i]) : i \in DOMAIN fixedHolidays }
      \cup { startOfDay(getGoodFriday(year)), startOfDay(getFamilyDay(year)) }

isPublicHoliday(date) ==
    LET year      == getYear(date)
        holidays  == getSAPublicHolidays(year)
        checkDate == startOfDay(date)
    IN  \E holiday \in holidays : isSameDay(holiday, checkDate)

\* Calendar days the engine can touch in this model, and the verdict of
\* isBusinessDay on each, evaluated once.
CalendarDays == (NewDate(2016, 0, 1) \div TicksPerDay) .. (NewDate(2017 + YearSpan, 11, 31) \div TicksPerDay)

businessDayTable ==
    [ d \in CalendarDays |->
        ~isWeekend(d * TicksPerDay) /\ ~isPublicHoliday(d * TicksPerDay) ]

isBusinessDay(date) == businessDayTable[date \div TicksPerDay]

\* -------------------------------------------------- Business-day arithmetic
\* addBusinessDaysLoop that counts every calendar day.
RECURSIVE addBusinessDaysLoopCalendar(_, _, _)
addBusinessDaysLoopCalendar(currentDate, daysAdded, businessDays) ==
    IF daysAdded < businessDays
    THEN addBusinessDaysLoopCalendar(addDays(currentDate, 1), daysAdded + 1,
                                     businessDays)
    ELSE currentDate

RECURSIVE addBusinessDaysLoop(_, _, _)
addBusinessDaysLoop(currentDate, daysAdded, businessDays) ==
    IF daysAdded < businessDays
    THEN LET next == addDays(currentDate, 1)
         IN  addBusinessDaysLoop(next,
                 IF isBusinessDay(next) THEN daysAdded + 1 ELSE daysAdded,
                 businessDays)
    ELSE currentDate

\* addBusinessDays that keeps the time of day of its start date.
addBusinessDaysKeepTime(startDate, businessDays) ==
    IF businessDays <= 0
    THEN startDate
    ELSE addBusinessDaysLoop(startDate, 0, businessDays)

addBusinessDays(startDate, businessDays) ==
    LET currentDate == startOfDay(startDate)
    IN  IF businessDays <= 0
        THEN currentDate
        ELSE addBusinessDaysLoop(currentDate, 0, businessDays)

\* The while loop of getBusinessDaysBetween, from currentDate on.
RECURSIVE getBusinessDaysBetweenLoop(_, _, _)
getBusinessDaysBetweenLoop(currentDate, later, businessDays) ==
    IF ~isAfter(currentDate, later)
    THEN getBusinessDaysBetweenLoop(addDays(currentDate, 1), later,
             IF isBusinessDay(currentDate) THEN businessDays + 1 ELSE businessDays)
    ELSE businessDays

\* getBusinessDaysBetween that counts the earlier date itself.
getBusinessDaysBetweenInclusive(startDate, endDate) ==
    LET start      == startOfDay(startDate)
        end        == startOfDay(endDate)
        isNegative == isBefore(end, start)
        earlier    == IF isNegative THEN end ELSE start
        later      == IF isNegative THEN start ELSE end
        count      == getBusinessDaysBetweenLoop(earlier, later, 0)
    IN  IF isSameDay(start, end)
        THEN 0
        ELSE IF isNegative THEN -count ELSE count

\* getBusinessDaysBetween that never negates its count.
getBusinessDaysBetweenUnsigned(startDate, endDate) ==
    LET start      == startOfDay(startDate)
        end        == startOfDay(endDate)
        isNegative == isBefore(end, start)
        earlier    == IF isNegative THEN end ELSE start
        later      == IF isNegative THEN start ELSE end
    IN  IF isSameDay(start, end)
        THEN 0
        ELSE getBusinessDaysBetweenLoop(addDays(earlier, 1), later, 0)

\* getBusinessDaysBetween that stops before the later date.
getBusinessDaysBetweenExclusive(startDate, endDate) ==
    LET start      == startOfDay(startDate)
        end        == startOfDay(endDate)
        isNegative == isBefore(end, start)
        earlier    == IF isNegative THEN end ELSE start
        later      == IF isNegative THEN start ELSE end
        count      == getBusinessDaysBetweenLoop(addDays(earlier, 1),
                                                 addDays(later, -1), 0)
    IN  IF isSameDay(start, end)
        THEN 0
        ELSE IF isNegative THEN -count ELSE count

getBusinessDaysBetween(startDate, endDate) ==
    LET start      == startOfDay(startDate)
        end        == startOfDay(endDate)
        isNegative == isBefore(end, start)
        earlier    == IF isNegative THEN end ELSE start
        later      == IF isNegative THEN start ELSE end
        count      == getBusinessDaysBetweenLoop(addDays(earlier, 1), later, 0)
    IN  IF isSameDay(start, end)
        THEN 0
        ELSE IF isNegative THEN -count ELSE count

\* getBusinessDaysUntil that does not negate the count of an overdue deadline.
getBusinessDaysUntilUnsigned(deadlineArg, now) ==
    LET today        == startOfDay(now)
        deadlineDate == startOfDay(deadlineArg)
    IN  IF isSameDay(today, deadlineDate)
        THEN 0
        ELSE IF isBefore(deadlineDate, today)
             THEN getBusinessDaysBetween(deadlineDate, today)
             ELSE getBusinessDaysBetween(today, deadlineDate)

\* getBusinessDaysUntil(deadline); now is the value new Date() reads.
getBusinessDaysUntil(deadlineArg, now) ==
    LET today        == startOfDay(now)
        deadlineDate == startOfDay(deadlineArg)
    IN  IF isSameDay(today, deadlineDate)
        THEN 0
        ELSE IF isBefore(deadlineDate, today)
             THEN -getBusinessDaysBetween(deadlineDate, today)
             ELSE getBusinessDaysBetween(today, deadlineDate)

\* ------------------------------------------------------------ Phase tables
PHASE_ORDER ==
    << "planning", "funding", "wayleave", "materials", "announcement",
       "kickoff", "build", "fqa", "ecc", "integration", "rfa", "com" >>

PhaseName == { PHASE_ORDER[i] : i \in DOMAIN PHASE_ORDER }

\* PHASE_ORDER.indexOf, 1-based here.
indexOf(phase) == CHOOSE i \in DOMAIN PHASE_ORDER : PHASE_ORDER[i] = phase

\* Partial record: a phase is a key only when it mirrors another phase.
MIRROR_PHASES == [ p \in {"fqa", "com"} |-> IF p = "fqa" THEN "build" ELSE "rfa" ]

\* obj[key] = value on a (partial) record of deadlines.
Put(deadlines, phase, date) ==
    [ p \in (DOMAIN deadlines) \cup {phase} |->
        IF p = phase THEN date ELSE deadlines[p] ]

\* ------------------------------------------------------ Deadline propagator
\* calculateStep without the wayleave check: a skipped wayleave is counted
\* like any other phase.
calculateStepNoSkip(phase, st, allowedDaysPerPhase) ==
    LET allowedDays == allowedDaysPerPhase[phase]
    IN  IF phase \in DOMAIN MIRROR_PHASES
             /\ MIRROR_PHASES[phase] \in DOMAIN st.deadlines
        THEN [ st EXCEPT !.deadlines =
                 Put(@, phase, st.deadlines[MIRROR_PHASES[phase]]) ]
        ELSE LET deadline == addBusinessDays(st.previousDeadline, allowedDays)
             IN  [ deadlines |-> Put(st.deadlines, phase, deadline),
                   previousDeadline |->
                       IF phase # "fqa" /\ phase # "com"
                       THEN deadline ELSE st.previousDeadline ]

\* calculateStep that never moves previousDeadline: every phase is counted
\* from the site-survey date.
calculateStepStaleCursor(phase, st, allowedDaysPerPhase) ==
    LET allowedDays == allowedDaysPerPhase[phase]
    IN  IF phase \in DOMAIN MIRROR_PHASES
             /\ MIRROR_PHASES[phase] \in DOMAIN st.deadlines
        THEN [ st EXCEPT !.deadlines =
                 Put(@, phase, st.deadlines[MIRROR_PHASES[phase]]) ]
        ELSE IF phase = "wayleave" /\ allowedDays = 0
        THEN st
        ELSE [ st EXCEPT !.deadlines =
                 Put(@, phase, addBusinessDays(st.previousDeadline, allowedDays)) ]

\* One iteration of the for-loop of calculatePhaseDeadlines. st carries the
\* function's locals: deadlines (a partial record) and previousDeadline.
calculateStep(phase, st, allowedDaysPerPhase) ==
    LET allowedDays == allowedDaysPerPhase[phase]
    IN  IF phase \in DOMAIN MIRROR_PHASES
             /\ MIRROR_PHASES[phase] \in DOMAIN st.deadlines
        THEN [ st EXCEPT !.deadlines =
                 Put(@, phase, st.deadlines[MIRROR_PHASES[phase]]) ]
        ELSE IF phase = "wayleave" /\ allowedDays = 0
        THEN st
        ELSE \* const deadline = addBusinessDays(previousDeadline, allowedDays)
             LET deadline == addBusinessDays(st.previousDeadline, allowedDays)
             IN  [ deadlines |-> Put(st.deadlines, phase, deadline),
                   previousDeadline |->
                       IF phase # "fqa" /\ phase # "com"
                       THEN deadline ELSE st.previousDeadline ]

RECURSIVE calculateLoop(_, _, _)
calculateLoop(i, st, allowedDaysPerPhase) ==
    IF i > Len(PHASE_ORDER)
    THEN st
    ELSE calculateLoop(i + 1,
             calculateStep(PHASE_ORDER[i], st, allowedDaysPerPhase),
             allowedDaysPerPhase)

\* Full recalculation; the result has no key for a skipped wayleave.
calculatePhaseDeadlines(siteSurveyDate, allowedDaysPerPhase) ==
    calculateLoop(1,
        [ deadlines |-> << >>, previousDeadline |-> startOfDay(siteSurveyDate) ],
        allowedDaysPerPhase).deadlines

\* syncMirrorPartner that copies from source to mirror only: a changed fqa or
\* com leaves build or rfa alone.
syncMirrorPartnerOneWay(deadlines, changedPhase) ==
    LET d2 == IF changedPhase = "build"
              THEN Put(deadlines, "fqa", deadlines["build"]) ELSE deadlines
        d3 == IF changedPhase = "rfa"
              THEN Put(d2, "com", d2["rfa"]) ELSE d2
    IN  d3

\* The four mirror assignments that follow the changed phase's own.
syncMirrorPartner(deadlines, changedPhase) ==
    LET d1 == IF changedPhase = "fqa"
              THEN Put(deadlines, "build", deadlines["fqa"]) ELSE deadlines
        d2 == IF changedPhase = "build"
              THEN Put(d1, "fqa", d1["build"]) ELSE d1
        d3 == IF changedPhase = "rfa"
              THEN Put(d2, "com", d2["rfa"]) ELSE d2
        d4 == IF changedPhase = "com"
              THEN Put(d3, "rfa", d3["com"]) ELSE d3
    IN  d4

\* recalculateStep that never moves previousDeadline: every later phase is
\* counted from the new deadline.
recalculateStepStaleCursor(phase, st, allowedDaysPerPhase) ==
    LET allowedDays == allowedDaysPerPhase[phase]
    IN  IF phase \in DOMAIN MIRROR_PHASES
             /\ MIRROR_PHASES[phase] \in DOMAIN st.deadlines
        THEN [ st EXCEPT !.deadlines =
                 Put(@, phase, st.deadlines[MIRROR_PHASES[phase]]) ]
        ELSE IF phase = "wayleave" /\ allowedDays = 0
        THEN st
        ELSE [ st EXCEPT !.deadlines =
                 Put(@, phase, addBusinessDays(st.previousDeadline, allowedDays)) ]

\* One iteration of the for-loop of calculatePhaseDeadlinesFromDeadline.
recalculateStep(phase, st, allowedDaysPerPhase) ==
    LET allowedDays == allowedDaysPerPhase[phase]
    IN  IF phase \in DOMAIN MIRROR_PHASES
             /\ MIRROR_PHASES[phase] \in DOMAIN st.deadlines
        THEN [ st EXCEPT !.deadlines =
                 Put(@, phase, st.deadlines[MIRROR_PHASES[phase]]) ]
        ELSE IF phase = "wayleave" /\ allowedDays = 0
        THEN st
        ELSE LET deadline == addBusinessDays(st.previousDeadline, allowedDays)
             IN  [ deadlines |-> Put(st.deadlines, phase, deadline),
                   previousDeadline |->
                       IF phase # "fqa" /\ phase # "com"
                       THEN deadline ELSE st.previousDeadline ]

RECURSIVE recalculateLoop(_, _, _)
recalculateLoop(i, st, allowedDaysPerPhase) ==
    IF i > Len(PHASE_ORDER)
    THEN st
    ELSE recalculateLoop(i + 1,
             recalculateStep(PHASE_ORDER[i], st, allowedDaysPerPhase),
             allowedDaysPerPhase)

\* The targeted recalculation with the new deadline stored as given, not at
\* start of day.
calculatePhaseDeadlinesFromDeadlineRaw(changedPhase, newDeadline, allowedDaysPerPhase, currentDeadlines) ==
    LET changedPhaseIndex == indexOf(changedPhase)
        deadlines == syncMirrorPartner(
                         Put(currentDeadlines, changedPhase, newDeadline),
                         changedPhase)
    IN  recalculateLoop(changedPhaseIndex + 1,
            [ deadlines |-> deadlines,
              previousDeadline |-> startOfDay(newDeadline) ],
            allowedDaysPerPhase).deadlines

\* The targeted recalculation with the loop run over every phase instead of
\* the phases after the changed one.
calculatePhaseDeadlinesFromDeadlineAll(changedPhase, newDeadline, allowedDaysPerPhase, currentDeadlines) ==
    LET deadlines == syncMirrorPartner(
                         Put(currentDeadlines, changedPhase, startOfDay(newDeadline)),
                         changedPhase)
    IN  recalculateLoop(1,
            [ deadlines |-> deadlines,
              previousDeadline |-> startOfDay(newDeadline) ],
            allowedDaysPerPhase).deadlines

\* Targeted recalculation from a directly set deadline.
calculatePhaseDeadlinesFromDeadline(changedPhase, newDeadline, allowedDaysPerPhase, currentDeadlines) ==
    LET changedPhaseIndex == indexOf(changedPhase)
        deadlines == syncMirrorPartner(
                         Put(currentDeadlines, changedPhase, startOfDay(newDeadline)),
                         changedPhase)
    IN  recalculateLoop(changedPhaseIndex + 1,
            [ deadlines |-> deadlines,
              previousDeadline |-> startOfDay(newDeadline) ],
            allowedDaysPerPhase).deadlines

\* ------------------------------------------------------------------ inputs
\* Site-survey dates a request can carry (one of them not at midnight).
AnchorDates == { NewDate(2022, 11, 30) + 1, NewDate(2023, 2, 13) }

\* Deadlines a request can carry (a working Tuesday; a holiday Saturday, not
\* at midnight).
OverrideDates == { NewDate(2023, 0, 3), NewDate(2023, 3, 8) + 1 }

\* Global settings rows a project can be created from: default days for the
\* ten phases that have a settings column.
SettingsTables ==
    { [ p \in PhaseName \ {"fqa", "com"} |-> IF p = "wayleave" THEN 0 ELSE 1 ],
      [ p \in PhaseName \ {"fqa", "com"} |-> MaxDays ] }

DayValues == 0 .. MaxDays

\* A request as it arrives: the caller's role and the JSON body, a tuple
\* << hasSiteSurveyDate, siteSurveyDate, phases >> whose phases are tuples
\* << phaseName, hasAllowedDays, allowedDays, hasDeadline, deadline >>.
\* updateProjectSchema.safeParse makes the handler's data of it.
PhaseUpdate(item) ==
    [ phaseName |-> item[1],
      hasAllowedDays |-> item[2], allowedDays |-> item[3],
      hasDeadline |-> item[4], deadline |-> item[5] ]

Request(role, body) ==
    [ role |-> role,
      hasSiteSurveyDate |-> body[1], siteSurveyDate |-> body[2],
      phases |-> [ k \in DOMAIN body[3] |-> PhaseUpdate(body[3][k]) ] ]

NULL == "null"

\* The first instant of the clock, and the instants it runs through.
ClockStart == NewDate(2022, 11, 30)

ClockEnd == addDays(ClockStart, ClockDays) + (TicksPerDay - 1)

\* Dates a caller passes to the businessDays functions: midnight and the last
\* instant of each day from 2022-12-22 on (two long weekends and a new year).
ProbeDates ==
    { addDays(NewDate(2022, 11, 22), k) + t :
        k \in 0 .. ProbeSpan, t \in {0, TicksPerDay - 1} }

\* businessDays arguments of addBusinessDays: allowedDays values and below.
ProbeAmounts == (-1) .. MaxAdd

Years == 2016 .. (2016 + YearSpan)

NoCall == [ fn |-> "none", a |-> 0, b |-> 0, at |-> 0, result |-> 0 ]

\* ------------------------------------------------------------------- state
VARIABLES
    siteSurveyDate,   \* Project.siteSurveyDate
    allowedDays,      \* ProjectPhase.allowedDays of each phase
    deadline,         \* ProjectPhase.deadline of each phase
    last,             \* the last request handled and what the engine returned
    requests,         \* update requests handled so far
    clock,            \* the instant new Date() reads
    call,             \* the last call of a businessDays function and its result
    handlers,         \* PATCH /projects/:id requests in flight
    isComplete,       \* ProjectPhase.isComplete of each phase
    users,            \* User.role of each user row
    tokens,           \* the role in the token each user holds
    notifications     \* Notification.type of each user and phase

vars == << siteSurveyDate, allowedDays, deadline, last, requests, clock, call, handlers, isComplete, users, tokens, notifications >>

\* The rows and tokens the deadline engine has no part in.
tracker == << handlers, isComplete, users, tokens, notifications >>

\* Request handlers that can run at the same time.
Handlers == {1, 2}

Idle == [ pc |-> "idle" ]

\* The users, and their rows as seeded: prisma default 'staff', one user made
\* superadmin and one admin.
UserIds == {"u1", "u2", "u3"}

UNSET == "none"

\* What every specification starts from besides the project: no request in
\* flight, no phase complete, the seeded users, nobody logged in, no notification.
TrackerInit ==
    /\ handlers = [ h \in Handlers |-> Idle ]
    /\ isComplete = [ p \in PhaseName |-> FALSE ]
    /\ users = [ u \in UserIds |->
                   CASE u = "u1" -> "superadmin" [] u = "u2" -> "admin"
                     [] OTHER -> "staff" ]
    /\ tokens = [ u \in UserIds |-> UNSET ]
    /\ notifications = [ u \in UserIds |-> [ p \in PhaseName |-> NULL ] ]

\* finalDeadlines[phaseName] || siteSurveyDate, for every phase.
storedDeadlines(finalDeadlines, fallbackDate) ==
    [ p \in PhaseName |->
        IF p \in DOMAIN finalDeadlines THEN finalDeadlines[p] ELSE fallbackDate ]

\* router.post('/'): allowedDaysMap built from the settings row.
allowedDaysMap(settings) ==
    [ p \in PhaseName |-> IF p \in {"fqa", "com"} THEN 0 ELSE settings[p] ]

\* ------------------------------------------------------- router.patch('/:id')
\* applyPhaseUpdate that takes a deadline from a caller of any role.
applyPhaseUpdateAnyRole(phaseUpdate, isSuperAdmin, acc) ==
    LET phaseName == phaseUpdate.phaseName
        a1 == IF phaseUpdate.hasAllowedDays
              THEN [ acc EXCEPT
                       !.currentAllowedDays[phaseName] = phaseUpdate.allowedDays,
                       !.needsFullRecalculation =
                           IF acc.recalculateFromPhase = NULL THEN TRUE ELSE @ ]
              ELSE acc
        moved == [ a1 EXCEPT
                     !.currentDeadlines[phaseName] = phaseUpdate.deadline ]
        a2 == IF phaseUpdate.hasDeadline
              THEN IF moved.recalculateFromPhase = NULL
                      \/ indexOf(moved.recalculateFromPhase) > indexOf(phaseName)
                   THEN [ moved EXCEPT
                            !.recalculateFromPhase = phaseName,
                            !.recalculateFromDeadline = << phaseUpdate.deadline >> ]
                   ELSE moved
              ELSE a1
    IN  IF phaseName \in PhaseName THEN a2 ELSE acc

\* applyPhaseUpdate that stores allowedDays without asking for a full
\* recalculation.
applyPhaseUpdateNoFlag(phaseUpdate, isSuperAdmin, acc) ==
    LET phaseName == phaseUpdate.phaseName
        a1 == IF phaseUpdate.hasAllowedDays
              THEN [ acc EXCEPT
                       !.currentAllowedDays[phaseName] = phaseUpdate.allowedDays ]
              ELSE acc
        moved == [ a1 EXCEPT
                     !.currentDeadlines[phaseName] = phaseUpdate.deadline ]
        a2 == IF phaseUpdate.hasDeadline /\ isSuperAdmin
              THEN IF moved.recalculateFromPhase = NULL
                      \/ indexOf(moved.recalculateFromPhase) > indexOf(phaseName)
                   THEN [ moved EXCEPT
                            !.recalculateFromPhase = phaseName,
                            !.recalculateFromDeadline = << phaseUpdate.deadline >> ]
                   ELSE moved
              ELSE a1
    IN  IF phaseName \in PhaseName THEN a2 ELSE acc

\* One element of data.phases. acc carries the handler's locals:
\* currentAllowedDays, currentDeadlines, needsFullRecalculation,
\* recalculateFromPhase, recalculateFromDeadline (empty or one date).
applyPhaseUpdate(phaseUpdate, isSuperAdmin, acc) ==
    LET phaseName == phaseUpdate.phaseName
        a1 == IF phaseUpdate.hasAllowedDays
              THEN [ acc EXCEPT
                       !.currentAllowedDays[phaseName] = phaseUpdate.allowedDays,
                       !.needsFullRecalculation =
                           IF acc.recalculateFromPhase = NULL THEN TRUE ELSE @ ]
              ELSE acc
        moved == [ a1 EXCEPT
                     !.currentDeadlines[phaseName] = phaseUpdate.deadline ]
        a2 == IF phaseUpdate.hasDeadline /\ isSuperAdmin
              THEN IF moved.recalculateFromPhase = NULL
                      \/ indexOf(moved.recalculateFromPhase) > indexOf(phaseName)
                   THEN [ moved EXCEPT
                            !.recalculateFromPhase = phaseName,
                            !.recalculateFromDeadline = << phaseUpdate.deadline >> ]
                   ELSE moved
              ELSE a1
    IN  IF phaseName \in PhaseName THEN a2 ELSE acc

RECURSIVE applyPhaseUpdates(_, _, _, _)
applyPhaseUpdates(phases, k, isSuperAdmin, acc) ==
    IF k > Len(phases)
    THEN acc
    ELSE applyPhaseUpdates(phases, k + 1, isSuperAdmin,
             applyPhaseUpdate(phases[k], isSuperAdmin, acc))

\* effectiveSiteSurveyDate that always takes the stored date.
staleSiteSurveyDate(req, existingSiteSurveyDate) == existingSiteSurveyDate

\* const siteSurveyDate = data.siteSurveyDate || existingProject.siteSurveyDate
effectiveSiteSurveyDate(req, existingSiteSurveyDate) ==
    IF req.hasSiteSurveyDate THEN req.siteSurveyDate ELSE existingSiteSurveyDate

\* applySiteSurveyDate that lets a new site-survey date win over a deadline
\* override of the same request.
applySiteSurveyDateReset(req, acc) ==
    IF req.hasSiteSurveyDate
    THEN [ acc EXCEPT
             !.needsFullRecalculation = TRUE,
             !.recalculateFromPhase = NULL ]
    ELSE acc

\* if (data.siteSurveyDate) { ... }: a full recalculation is needed; a phase
\* to recalculate from, when there is one, is kept.
applySiteSurveyDate(req, acc) ==
    IF req.hasSiteSurveyDate
    THEN [ acc EXCEPT
             !.needsFullRecalculation = TRUE,
             !.recalculateFromPhase = IF @ = NULL THEN NULL ELSE @ ]
    ELSE acc

\* The branch that computes finalDeadlines.
selectMode(acc) ==
    IF acc.recalculateFromPhase # NULL /\ acc.recalculateFromDeadline # << >>
    THEN "targeted"
    ELSE IF acc.needsFullRecalculation THEN "full" ELSE "keep"

\* The handler between requireAdmin and the transaction: its locals when it
\* reaches the transaction. req = [role, hasSiteSurveyDate, siteSurveyDate,
\* phases].
recalculation(req, existingSiteSurveyDate, existingAllowedDays, existingDeadlines) ==
    LET isSuperAdmin == req.role = "superadmin"
        acc == applySiteSurveyDate(req,
                   applyPhaseUpdates(req.phases, 1, isSuperAdmin,
                       [ currentAllowedDays      |-> existingAllowedDays,
                         currentDeadlines        |-> existingDeadlines,
                         needsFullRecalculation  |-> FALSE,
                         recalculateFromPhase    |-> NULL,
                         recalculateFromDeadline |-> << >> ]))
        ssd  == effectiveSiteSurveyDate(req, existingSiteSurveyDate)
        mode == selectMode(acc)
    IN  [ siteSurveyDate     |-> ssd,
          currentAllowedDays |-> acc.currentAllowedDays,
          currentDeadlines   |-> acc.currentDeadlines,
          mode               |-> mode,
          changedPhase       |-> acc.recalculateFromPhase,
          newDeadline        |-> acc.recalculateFromDeadline,
          finalDeadlines     |->
            CASE mode = "targeted" ->
                   calculatePhaseDeadlinesFromDeadline(
                       acc.recalculateFromPhase, acc.recalculateFromDeadline[1],
                       acc.currentAllowedDays, acc.currentDeadlines)
              [] mode = "full" ->
                   calculatePhaseDeadlines(ssd, acc.currentAllowedDays)
              [] OTHER -> acc.currentDeadlines ]

\* ------------------------------------------------------------------ actions
\* router.post('/'): the project as created.
CreateProject(date, settings) ==
    LET days      == allowedDaysMap(settings)
        deadlines == calculatePhaseDeadlines(date, days)
    IN  /\ siteSurveyDate = date
        /\ allowedDays = days
        /\ deadline = storedDeadlines(deadlines, date)
        /\ last = [ op |-> "create", mode |-> "full",
                    req |-> Request("user", << TRUE, date, << >> >>),
                    changedPhase |-> NULL, newDeadline |-> << >>,
                    prevSiteSurveyDate |-> date,
                    existingDeadlines |-> << >>,
                    currentDeadlines |-> << >>,
                    finalDeadlines |-> deadlines ]
        /\ requests = 0

Init ==
    /\ \E date \in AnchorDates, settings \in SettingsTables :
           CreateProject(date, settings)
    /\ clock = ClockStart
    /\ call = NoCall
    /\ TrackerInit

\* PATCH /projects/:id with the given body, by a caller of the given role:
\* requireAdmin, the recalculation, and the transaction that writes the
\* site-survey date (when given) and every phase row.
UpdateProject(role, body) ==
    /\ requests < MaxRequests
    /\ requests' = requests + 1
    /\ UNCHANGED << clock, call, tracker >>
    /\ IF role \in {"admin", "superadmin"}
       THEN \E out \in { recalculation(Request(role, body), siteSurveyDate,
                                       allowedDays, deadline) } :
                /\ siteSurveyDate' = IF body[1] THEN body[2] ELSE siteSurveyDate
                /\ allowedDays' = out.currentAllowedDays
                /\ deadline' = storedDeadlines(out.finalDeadlines, out.siteSurveyDate)
                /\ last' = [ op |-> "update", mode |-> out.mode,
                             req |-> Request(role, body),
                             changedPhase |-> out.changedPhase,
                             newDeadline |-> out.newDeadline,
                             prevSiteSurveyDate |-> siteSurveyDate,
                             existingDeadlines |-> deadline,
                             currentDeadlines |-> out.currentDeadlines,
                             finalDeadlines |-> out.finalDeadlines ]
       ELSE /\ UNCHANGED << siteSurveyDate, allowedDays, deadline >>
            /\ last' = [ op |-> "forbidden", mode |-> "keep",
                         req |-> Request(role, body),
                         changedPhase |-> NULL, newDeadline |-> << >>,
                         prevSiteSurveyDate |-> siteSurveyDate,
                         existingDeadlines |-> deadline,
                         currentDeadlines |-> deadline,
                         finalDeadlines |-> deadline ]

\* Body with a new site-survey date only.
AnchorChange ==
    \E date \in AnchorDates :
        UpdateProject("admin", << TRUE, date, << >> >>)

\* Body with allowedDays for one phase, or for a name that is no phase.
DurationChange ==
    \E p \in PhaseName \cup {"unknown"}, n \in DayValues :
        UpdateProject("admin", << FALSE, 0, << << p, TRUE, n, FALSE, 0 >> >> >>)

\* Body with a deadline for one phase, from an admin or a super admin.
DeadlineOverride ==
    \E role \in {"admin", "superadmin"}, p \in PhaseName, d \in OverrideDates :
        UpdateProject(role, << FALSE, 0, << << p, FALSE, 0, TRUE, d >> >> >>)

\* Body with a new site-survey date and a deadline for one phase.
AnchorAndOverride ==
    \E date \in AnchorDates, p \in PhaseName, d \in OverrideDates :
        UpdateProject("superadmin",
            << TRUE, date, << << p, FALSE, 0, TRUE, d >> >> >>)

\* Body with allowedDays and a deadline in the same element.
DaysAndOverride ==
    \E p \in PhaseName, n \in {0, MaxDays}, d \in OverrideDates :
        UpdateProject("superadmin",
            << FALSE, 0, << << p, TRUE, n, TRUE, d >> >> >>)

\* Body with deadlines for two phases, in either order of the sequence.
TwoOverrides ==
    \E p \in PhaseName, q \in {"wayleave", "fqa", "com"},
       d1 \in OverrideDates, d2 \in OverrideDates :
        /\ p # q
        /\ d1 < d2
        /\ UpdateProject("superadmin",
               << FALSE, 0, << << p, FALSE, 0, TRUE, d1 >>,
                               << q, FALSE, 0, TRUE, d2 >> >> >>)

\* Body from an admin with a deadline for one phase beside a new site-survey
\* date or allowedDays of that phase.
AdminOverride ==
    \E p \in PhaseName, d \in OverrideDates :
        \/ \E date \in AnchorDates :
              UpdateProject("admin",
                  << TRUE, date, << << p, FALSE, 0, TRUE, d >> >> >>)
        \/ \E n \in {0, MaxDays} :
              UpdateProject("admin",
                  << FALSE, 0, << << p, TRUE, n, TRUE, d >> >> >>)

\* A caller that requireAdmin turns away.
ForbiddenUpdate ==
    \E date \in AnchorDates :
        UpdateProject("user", << TRUE, date, << >> >>)

Next ==
    \/ AnchorChange
    \/ DurationChange
    \/ DeadlineOverride
    \/ AnchorAndOverride
    \/ DaysAndOverride
    \/ TwoOverrides
    \/ AdminOverride
    \/ ForbiddenUpdate

Spec == Init /\ [][Next]_vars

\* ------------------------------------------- calls of the businessDays module
\* One project, and a caller that calls one businessDays function with
\* arguments of its choice while the clock runs.
project == << siteSurveyDate, allowedDays, deadline, last, requests >>

CalendarInit ==
    /\ \E date \in { ClockStart }, settings \in SettingsTables :
           /\ settings["wayleave"] = 0
           /\ CreateProject(date, settings)
    /\ clock = ClockStart
    /\ call = NoCall
    /\ TrackerInit

\* Time passes by one instant.
ClockAdvance ==
    /\ clock < ClockEnd
    /\ clock' = clock + 1
    /\ UNCHANGED << project, call, tracker >>

AddBusinessDaysCall ==
    /\ call.fn = "none"
    /\ \E startDate \in ProbeDates, businessDays \in ProbeAmounts :
           call' = [ fn |-> "addBusinessDays", a |-> startDate,
                     b |-> businessDays, at |-> clock,
                     result |-> addBusinessDays(startDate, businessDays) ]
    /\ UNCHANGED << project, clock, tracker >>

GetBusinessDaysBetweenCall ==
    /\ call.fn = "none"
    /\ \E startDate \in ProbeDates, endDate \in ProbeDates :
           call' = [ fn |-> "getBusinessDaysBetween", a |-> startDate,
                     b |-> endDate, at |-> clock,
                     result |-> getBusinessDaysBetween(startDate, endDate) ]
    /\ UNCHANGED << project, clock, tracker >>

\* getBusinessDaysUntil of a deadline, as router.get('/') calls it for a phase.
GetBusinessDaysUntilCall ==
    /\ call.fn = "none"
    /\ \E deadlineArg \in ProbeDates :
           call' = [ fn |-> "getBusinessDaysUntil", a |-> deadlineArg,
                     b |-> 0, at |-> clock,
                     result |-> getBusinessDaysUntil(deadlineArg, clock) ]
    /\ UNCHANGED << project, clock, tracker >>

GetSAPublicHolidaysCall ==
    /\ call.fn = "none"
    /\ \E year \in Years :
           call' = [ fn |-> "getSAPublicHolidays", a |-> year,
                     b |-> 0, at |-> clock,
                     result |-> getSAPublicHolidays(year) ]
    /\ UNCHANGED << project, clock, tracker >>

CalendarNext ==
    \/ ClockAdvance
    \/ AddBusinessDaysCall
    \/ GetBusinessDaysBetweenCall
    \/ GetBusinessDaysUntilCall
    \/ GetSAPublicHolidaysCall

CalendarSpec == CalendarInit /\ [][CalendarNext]_vars

\* ------------------------------------------- the engine's loops, step by step
\* The two for-loops of the propagator run one iteration at a time, over a
\* phase-order configuration: PHASE_ORDER as it is, or with a mirror phase
\* put before the phase it mirrors.
SwapPhases(order, p, q) ==
    [ i \in DOMAIN order |->
        IF order[i] = p THEN q ELSE IF order[i] = q THEN p ELSE order[i] ]

PhaseOrders ==
    { PHASE_ORDER,
      SwapPhases(PHASE_ORDER, "build", "fqa"),
      SwapPhases(PHASE_ORDER, "rfa", "com") }

\* order.indexOf(phase), 1-based here.
indexIn(order, phase) == CHOOSE i \in DOMAIN order : order[i] = phase

\* mirrorOf is set and deadlines[mirrorOf] is not: the first if of the loop
\* body is not taken although the phase mirrors another.
unresolvedMirror(phase, deadlines) ==
    /\ phase \in DOMAIN MIRROR_PHASES
    /\ MIRROR_PHASES[phase] \notin DOMAIN deadlines

EngineInit ==
    /\ \E date \in { ClockStart }, settings \in SettingsTables :
           CreateProject(date, settings)
    /\ clock = ClockStart
    /\ call = NoCall
    /\ TrackerInit

\* calculatePhaseDeadlines(date, allowedDays of the project) up to its loop.
CalculateStart ==
    /\ call.fn = "none"
    /\ \E order \in PhaseOrders, date \in AnchorDates :
           call' = [ fn |-> "calculatePhaseDeadlines", a |-> order, b |-> 1,
                     at |-> clock,
                     result |-> [ deadlines |-> << >>,
                                  previousDeadline |-> startOfDay(date) ],
                     reached |-> NULL, unresolved |-> FALSE,
                     status |-> "running" ]
    /\ UNCHANGED << project, clock, tracker >>

\* calculatePhaseDeadlinesFromDeadline(changedPhase, newDeadline, allowedDays
\* and deadlines of the project) up to its loop.
RecalculateStart ==
    /\ call.fn = "none"
    /\ \E order \in PhaseOrders, changedPhase \in PhaseName,
          newDeadline \in OverrideDates :
           call' = [ fn |-> "calculatePhaseDeadlinesFromDeadline", a |-> order,
                     b |-> indexIn(order, changedPhase) + 1, at |-> clock,
                     result |-> [ deadlines |->
                                    syncMirrorPartner(
                                        Put(deadline, changedPhase,
                                            startOfDay(newDeadline)),
                                        changedPhase),
                                  previousDeadline |-> startOfDay(newDeadline) ],
                     reached |-> NULL, unresolved |-> FALSE,
                     status |-> "running" ]
    /\ UNCHANGED << project, clock, tracker >>

\* One iteration of the running loop. Neither loop body has a throw.
LoopStep ==
    /\ call.fn \in {"calculatePhaseDeadlines", "calculatePhaseDeadlinesFromDeadline"}
    /\ call.status = "running"
    /\ call.b <= Len(call.a)
    /\ LET phase == call.a[call.b]
       IN  call' = [ call EXCEPT
                       !.b = @ + 1,
                       !.result = IF call.fn = "calculatePhaseDeadlines"
                                  THEN calculateStep(phase, @, allowedDays)
                                  ELSE recalculateStep(phase, @, allowedDays),
                       !.reached = phase,
                       !.unresolved = unresolvedMirror(phase, call.result.deadlines) ]
    /\ UNCHANGED << project, clock, tracker >>

\* return deadlines.
LoopReturn ==
    /\ call.fn \in {"calculatePhaseDeadlines", "calculatePhaseDeadlinesFromDeadline"}
    /\ call.status = "running"
    /\ call.b > Len(call.a)
    /\ call' = [ call EXCEPT !.status = "returned" ]
    /\ UNCHANGED << project, clock, tracker >>

EngineNext ==
    \/ CalculateStart
    \/ RecalculateStart
    \/ LoopStep
    \/ LoopReturn

EngineSpec == EngineInit /\ [][EngineNext]_vars

\* --------------------------------------- router.patch('/:id'), two at a time
\* The handler as its awaits divide it: prisma.project.findUnique reads the
\* project and its phases; the rest runs on that copy and ends in the
\* transaction that writes every phase row.
\* Requests two callers send at the same time, as << role, body >>.
ConcurrentRequests ==
    { << "admin", << FALSE, 0, << << p, TRUE, n, FALSE, 0 >> >> >> >> :
        p \in {"planning", "kickoff"}, n \in DayValues }
      \cup { << "admin", << TRUE, date, << >> >> >> : date \in AnchorDates }
      \cup { << "superadmin", << FALSE, 0, << << "build", FALSE, 0, TRUE, d >> >> >> >> :
               d \in OverrideDates }

\* What one handled request leaves in the database, given the rows it read
\* (the copy) and the site-survey date stored when it writes.
patchedProject(request, copy, storedSiteSurveyDate) ==
    LET body == request[2]
        out  == recalculation(Request(request[1], body), copy[1], copy[2], copy[3])
    IN  << IF body[1] THEN body[2] ELSE storedSiteSurveyDate,
           out.currentAllowedDays,
           storedDeadlines(out.finalDeadlines, out.siteSurveyDate) >>

ConcurrentInit ==
    /\ \E date \in AnchorDates, settings \in SettingsTables :
           CreateProject(date, settings)
    /\ clock = ClockStart
    /\ call = NoCall
    /\ TrackerInit

\* requireAdmin, safeParse and findUnique: the handler holds its own copy of
\* the project rows from here on.
ReadProject(h) ==
    /\ handlers[h].pc = "idle"
    /\ \E request \in ConcurrentRequests :
           handlers' = [ handlers EXCEPT ![h] =
                           [ pc |-> "read", request |-> request,
                             readAfter |-> requests,
                             copy |-> << siteSurveyDate, allowedDays, deadline >> ] ]
    /\ UNCHANGED << project, clock, call, isComplete, users, tokens, notifications >>

\* The recalculation on the copy, and prisma.$transaction.
WriteProject(h) ==
    /\ handlers[h].pc = "read"
    /\ \E out \in { patchedProject(handlers[h].request, handlers[h].copy,
                                   siteSurveyDate) } :
           /\ siteSurveyDate' = out[1]
           /\ allowedDays' = out[2]
           /\ deadline' = out[3]
    /\ requests' = requests + 1
    /\ handlers' = [ handlers EXCEPT ![h].pc = "done" ]
    /\ UNCHANGED << last, clock, call, isComplete, users, tokens, notifications >>

ConcurrentNext ==
    \E h \in Handlers : ReadProject(h) \/ WriteProject(h)

ConcurrentSpec == ConcurrentInit /\ [][ConcurrentNext]_vars

\* ---------------------------------------- phases router and the project list
\* Everyone logs in: the token carries the role the user row has then.
LoggedIn(rows) == [ u \in UserIds |-> rows[u] ]

\* authenticate: the users whose cookie holds a token.
authenticated == { u \in UserIds : tokens[u] # UNSET }

\* requireAdmin: the users whose token says admin or superadmin.
admins == { u \in UserIds : tokens[u] \in {"admin", "superadmin"} }

\* The phase completed or uncompleted along with the given one.
mirrorPhaseName(phaseName) ==
    CASE phaseName = "build" -> "fqa"
      [] phaseName = "rfa"   -> "com"
      [] OTHER               -> NULL

\* prisma.projectPhase.update of isComplete on the phase and, when it has one,
\* on its mirror phase.
markPhases(rows, phaseName, value) ==
    [ p \in PhaseName |->
        IF p = phaseName \/ p = mirrorPhaseName(phaseName) THEN value ELSE rows[p] ]

\* prisma.notification.deleteMany for the phase and its mirror phase.
clearNotifications(table, phaseName) ==
    [ u \in UserIds |->
        [ p \in PhaseName |->
            IF p = phaseName \/ p = mirrorPhaseName(phaseName)
            THEN NULL ELSE table[u][p] ] ]

Response(fn, result) == [ fn |-> fn, a |-> 0, b |-> 0, at |-> clock, result |-> result ]

\* POST /phases/:id/complete by any authenticated user. (requests, the
\* number of requests handled, is left to the specification.)
CompletePhase(phaseName) ==
    /\ authenticated # {}
    /\ IF isComplete[phaseName]
       THEN /\ call' = Response("complete", 400)
            /\ UNCHANGED << isComplete, notifications >>
       ELSE /\ isComplete' = markPhases(isComplete, phaseName, TRUE)
            /\ notifications' = clearNotifications(notifications, phaseName)
            /\ call' = Response("complete", 200)
    /\ UNCHANGED << siteSurveyDate, allowedDays, deadline, last, clock, handlers, users, tokens >>

\* POST /phases/:id/uncomplete by an admin or a super admin.
UncompletePhase(phaseName) ==
    /\ authenticated \cap admins # {}
    /\ IF ~isComplete[phaseName]
       THEN /\ call' = Response("uncomplete", 400)
            /\ UNCHANGED isComplete
       ELSE /\ isComplete' = markPhases(isComplete, phaseName, FALSE)
            /\ call' = Response("uncomplete", 200)
    /\ UNCHANGED << siteSurveyDate, allowedDays, deadline, last, clock, handlers, users, tokens, notifications >>

\* router.get('/') of the projects router: the status it gives the project.
completedCount(rows) == Cardinality({ p \in PhaseName : rows[p] })

totalPhases(days) ==
    Cardinality({ p \in PhaseName :
                    /\ ~(p = "wayleave" /\ days[p] = 0)
                    /\ ~(p = "fqa" \/ p = "com") })

\* The phases the for-loop of the status looks at.
openPhases(rows, days) ==
    { p \in PhaseName : ~rows[p] /\ ~(p = "wayleave" /\ days[p] = 0) }

projectStatus(rows, days, deadlines, now) ==
    IF completedCount(rows) = totalPhases(days) /\ totalPhases(days) > 0
    THEN "complete"
    ELSE IF \E p \in openPhases(rows, days) :
                getBusinessDaysUntil(deadlines[p], now) < 0
    THEN "overdue"
    ELSE IF \E p \in openPhases(rows, days) :
                getBusinessDaysUntil(deadlines[p], now) <= 3
    THEN "at-risk"
    ELSE "on-track"

\* GET /projects by any authenticated user.
ListProjects ==
    /\ authenticated # {}
    /\ call' = Response("list", projectStatus(isComplete, allowedDays, deadline, clock))
    /\ UNCHANGED << project, clock, tracker >>

\* The project a week after its site survey, every user logged in.
CompletionInit ==
    /\ \E date \in { ClockStart }, settings \in SettingsTables :
           CreateProject(date, settings)
    /\ clock = addDays(ClockStart, 7)
    /\ call = NoCall
    /\ handlers = [ h \in Handlers |-> Idle ]
    /\ isComplete = [ p \in PhaseName |-> FALSE ]
    /\ \E rows \in { [ u \in UserIds |->
                         CASE u = "u1" -> "superadmin" [] u = "u2" -> "admin"
                           [] OTHER -> "staff" ] } :
           users = rows /\ tokens = LoggedIn(rows)
    /\ notifications = [ u \in UserIds |-> [ p \in PhaseName |-> NULL ] ]

CompleteSomePhase ==
    \E phaseName \in PhaseName : CompletePhase(phaseName) /\ UNCHANGED requests

UncompleteSomePhase ==
    \E phaseName \in PhaseName : UncompletePhase(phaseName) /\ UNCHANGED requests

CompletionNext ==
    \/ CompleteSomePhase
    \/ UncompleteSomePhase
    \/ ListProjects

CompletionSpec == CompletionInit /\ [][CompletionNext]_vars

\* ------------------------------------------------------ notifications router
\* notificationType that calls a deadline one business day away a warning.
notificationTypeTodayOnly(daysUntil) ==
    IF daysUntil < 0 THEN "overdue"
    ELSE IF daysUntil = 0 THEN "urgent"
    ELSE IF daysUntil <= 3 THEN "warning"
    ELSE NULL

\* The if-chain of generateNotificationsForUser; NULL when type stays null.
notificationType(daysUntil) ==
    IF daysUntil < 0 THEN "overdue"
    ELSE IF daysUntil = 0 THEN "urgent"
    ELSE IF daysUntil = 1 THEN "urgent"
    ELSE IF daysUntil <= 3 THEN "warning"
    ELSE NULL

\* The user's notifications of the project after generateNotificationsForUser:
\* deleted for a complete phase, left alone for a skipped wayleave, upserted
\* or deleted by type for the others.
generateNotificationsForUser(mine, rows, days, deadlines, now) ==
    [ p \in PhaseName |->
        IF rows[p] THEN NULL
        ELSE IF p = "wayleave" /\ days[p] = 0 THEN mine[p]
        ELSE notificationType(getBusinessDaysUntil(deadlines[p], now)) ]

\* GET /notifications by an authenticated user.
GetNotifications(userId) ==
    /\ userId \in authenticated
    /\ requests < MaxRequests
    /\ requests' = requests + 1
    /\ notifications' =
           [ notifications EXCEPT ![userId] =
               generateNotificationsForUser(@, isComplete, allowedDays, deadline, clock) ]
    /\ call' = Response("notifications", userId)
    /\ UNCHANGED << siteSurveyDate, allowedDays, deadline, last, clock, handlers, isComplete, users, tokens >>

GetSomeNotifications == \E userId \in UserIds : GetNotifications(userId)

CompletePhaseCounted ==
    /\ requests < MaxRequests
    /\ requests' = requests + 1
    /\ \E phaseName \in PhaseName : CompletePhase(phaseName)

\* The project on the day of its site survey or a week after it, every user
\* logged in.
NotificationInit ==
    /\ \E date \in { ClockStart }, settings \in SettingsTables :
           CreateProject(date, settings)
    /\ clock \in { ClockStart, addDays(ClockStart, 7) }
    /\ call = NoCall
    /\ handlers = [ h \in Handlers |-> Idle ]
    /\ isComplete = [ p \in PhaseName |-> FALSE ]
    /\ \E rows \in { [ u \in UserIds |->
                         CASE u = "u1" -> "superadmin" [] u = "u2" -> "admin"
                           [] OTHER -> "staff" ] } :
           users = rows /\ tokens = LoggedIn(rows)
    /\ notifications = [ u \in UserIds |-> [ p \in PhaseName |-> NULL ] ]

NotificationNext ==
    \/ GetSomeNotifications
    \/ CompletePhaseCounted
    \/ ClockAdvance

NotificationSpec == NotificationInit /\ [][NotificationNext]_vars

\* --------------------------------------------------------------- users router
DELETED == "deleted"

updateRoleSchema == {"staff", "admin", "superadmin"}

\* User rows the requests start from: one super admin, or two, with an admin
\* or a staff user beside them.
SeededUsers ==
    { [ u \in UserIds |->
          CASE u = "u1" -> "superadmin" [] u = "u2" -> second [] OTHER -> "staff" ] :
        second \in {"admin", "superadmin"} }

\* The status the checks of router.patch('/:id/role') end in; 200 when the
\* update is made. currentUser is the caller with the role of the token.
updateRoleStatus(currentUserId, currentUserRole, targetId, role, rows) ==
    IF currentUserRole \notin {"admin", "superadmin"} THEN 403
    ELSE IF rows[targetId] = DELETED THEN 404
    ELSE IF targetId = currentUserId THEN 400
    ELSE IF role = "superadmin" /\ currentUserRole # "superadmin" THEN 403
    ELSE IF rows[targetId] = "superadmin" /\ currentUserRole # "superadmin" THEN 403
    ELSE IF role = "admin" /\ currentUserRole = "admin" THEN 403
    ELSE 200

\* The status the checks of router.delete('/:id') end in.
deleteUserStatus(currentUserId, currentUserRole, targetId, rows) ==
    IF currentUserRole \notin {"admin", "superadmin"} THEN 403
    ELSE IF rows[targetId] = DELETED THEN 404
    ELSE IF targetId = currentUserId THEN 400
    ELSE IF rows[targetId] \in {"admin", "superadmin"} /\ currentUserRole # "superadmin"
    THEN 403
    ELSE IF rows[targetId] = "superadmin"
              /\ Cardinality({ u \in UserIds : rows[u] = "superadmin" }) <= 1
    THEN 400
    ELSE 200

UserInit ==
    /\ \E date \in { ClockStart }, settings \in SettingsTables :
           /\ settings["wayleave"] = 0
           /\ CreateProject(date, settings)
    /\ clock = ClockStart
    /\ call = NoCall
    /\ handlers = [ h \in Handlers |-> Idle ]
    /\ isComplete = [ p \in PhaseName |-> FALSE ]
    /\ \E rows \in SeededUsers : users = rows /\ tokens = LoggedIn(rows)
    /\ notifications = [ u \in UserIds |-> [ p \in PhaseName |-> NULL ] ]

\* A user logs in again: generateToken signs the role the row has now.
Login ==
    /\ requests < MaxRequests
    /\ requests' = requests + 1
    /\ \E u \in UserIds :
          /\ users[u] # DELETED
          /\ tokens' = [ tokens EXCEPT ![u] = users[u] ]
          /\ call' = [ fn |-> "login", a |-> users[u], b |-> 0, at |-> clock,
                       result |-> 200 ]
    /\ UNCHANGED << siteSurveyDate, allowedDays, deadline, last, clock, handlers, isComplete, users, notifications >>

\* PATCH /users/:id/role.
UpdateRole ==
    /\ requests < MaxRequests
    /\ requests' = requests + 1
    /\ \E currentUser \in authenticated, target \in UserIds, role \in updateRoleSchema :
          \E status \in { updateRoleStatus(currentUser, tokens[currentUser],
                                           target, role, users) } :
             /\ users' = IF status = 200
                         THEN [ users EXCEPT ![target] = role ] ELSE users
             /\ call' = [ fn |-> "role", a |-> tokens[currentUser],
                          b |-> users[target], at |-> clock,
                          result |-> IF status = 200 THEN role ELSE users[target],
                          status |-> status ]
    /\ UNCHANGED << siteSurveyDate, allowedDays, deadline, last, clock, handlers, isComplete, tokens, notifications >>

\* DELETE /users/:id.
DeleteUser ==
    /\ requests < MaxRequests
    /\ requests' = requests + 1
    /\ \E currentUser \in authenticated, target \in UserIds :
          \E status \in { deleteUserStatus(currentUser, tokens[currentUser],
                                           target, users) } :
             /\ users' = IF status = 200
                         THEN [ users EXCEPT ![target] = DELETED ] ELSE users
             /\ call' = [ fn |-> "delete", a |-> tokens[currentUser],
                          b |-> users[target], at |-> clock,
                          result |-> IF status = 200 THEN DELETED ELSE users[target],
                          status |-> status ]
    /\ UNCHANGED << siteSurveyDate, allowedDays, deadline, last, clock, handlers, isComplete, tokens, notifications >>

UserNext ==
    \/ Login
    \/ UpdateRole
    \/ DeleteUser

UserSpec == UserInit /\ [][UserNext]_vars

\* ------------------------------------------- the Netlify function's engine
\* getSouthAfricanPublicHolidays of api.mts: the fixed holidays on their own
\* dates, Good Friday two days before Easter Sunday, Family Day the day after
\* Easter Sunday, and the Monday after every holiday that is a Sunday.
getSouthAfricanPublicHolidays(year) ==
    LET easter   == getEasterSunday(year)
        holidays == { NewDate(year, fixedHolidays[i][1], fixedHolidays[i][2]) :
                        i \in DOMAIN fixedHolidays }
                      \cup { addDays(easter, -2), addDays(easter, 1) }
    IN  holidays \cup { addDays(holiday, 1) : holiday \in { h \in holidays : getDay(h) = 0 } }

netlifyIsPublicHoliday(date) ==
    \E holiday \in getSouthAfricanPublicHolidays(getYear(date)) :
        holiday \div TicksPerDay = date \div TicksPerDay

\* The verdict of the Netlify isBusinessDay on each calendar day, evaluated once.
netlifyBusinessDayTable ==
    [ d \in CalendarDays |->
        /\ getDay(d * TicksPerDay) # 0
        /\ getDay(d * TicksPerDay) # 6
        /\ ~netlifyIsPublicHoliday(d * TicksPerDay) ]

netlifyIsBusinessDay(date) == netlifyBusinessDayTable[date \div TicksPerDay]

\* The while loop of the Netlify addBusinessDays: setDate(getDate() + 1) keeps
\* the time of day.
RECURSIVE netlifyAddBusinessDaysLoop(_, _, _)
netlifyAddBusinessDaysLoop(currentDate, daysAdded, businessDays) ==
    IF daysAdded < businessDays
    THEN LET next == addDays(currentDate, 1)
         IN  netlifyAddBusinessDaysLoop(next,
                 IF netlifyIsBusinessDay(next) THEN daysAdded + 1 ELSE daysAdded,
                 businessDays)
    ELSE currentDate

netlifyAddBusinessDays(startDate, businessDays) ==
    netlifyAddBusinessDaysLoop(startDate, 0, businessDays)

\* The for-loop of the Netlify calculatePhaseDeadlines from phase i on: every
\* phase with days > 0 moves currentDate and every phase is given currentDate;
\* build and rfa also write the key of fqa and of com.
RECURSIVE netlifyCalculateLoop(_, _, _, _)
netlifyCalculateLoop(i, currentDate, deadlines, allowedDaysPerPhase) ==
    IF i > Len(PHASE_ORDER)
    THEN deadlines
    ELSE LET phase == PHASE_ORDER[i]
             days  == allowedDaysPerPhase[phase]
             moved == IF days > 0
                      THEN netlifyAddBusinessDays(currentDate, days)
                      ELSE currentDate
             own   == Put(deadlines, phase, moved)
             fqa   == IF phase = "build" THEN Put(own, "fqa", moved) ELSE own
             com   == IF phase = "rfa" THEN Put(fqa, "com", moved) ELSE fqa
         IN  netlifyCalculateLoop(i + 1, moved, com, allowedDaysPerPhase)

netlifyCalculatePhaseDeadlines(date, allowedDaysPerPhase) ==
    netlifyCalculateLoop(1, date, << >>, allowedDaysPerPhase)

\* Start-of-day site-survey dates from 2023-03-27 on (Easter 2023 is 9 April).
NetlifyAnchorDates == { addDays(NewDate(2023, 2, 27), k) : k \in 0 .. ProbeSpan }

\* Duration tables as the function's caller builds them: one value for the
\* nine counted phases, one for wayleave, 0 for fqa and com.
DurationTables ==
    { [ p \in PhaseName |->
          CASE p \in {"fqa", "com"} -> 0 [] p = "wayleave" -> w [] OTHER -> n ] :
        n \in 1 .. MaxDays, w \in DayValues }

\* Dates both isBusinessDay functions are asked about: the days around Easter
\* Sunday of each year, and the turn of the year 2022.
EasterDates ==
    { addDays(getEasterSunday(y), k) + t :
        y \in Years, k \in (-3) .. 2, t \in {0, TicksPerDay - 1} } \cup ProbeDates

NetlifyInit == CalendarInit

\* Both engines are given the same site-survey date and duration table.
CalculateBoth ==
    /\ call.fn = "none"
    /\ \E date \in NetlifyAnchorDates, days \in DurationTables :
          call' = [ fn |-> "calculatePhaseDeadlines", a |-> date, b |-> days,
                    at |-> clock,
                    result |-> netlifyCalculatePhaseDeadlines(date, days),
                    server |-> calculatePhaseDeadlines(date, days) ]
    /\ UNCHANGED << project, clock, tracker >>

\* Both isBusinessDay functions are asked about the same date.
IsBusinessDayBoth ==
    /\ call.fn = "none"
    /\ \E date \in EasterDates :
          call' = [ fn |-> "isBusinessDay", a |-> date, b |-> 0, at |-> clock,
                    result |-> netlifyIsBusinessDay(date),
                    server |-> isBusinessDay(date) ]
    /\ UNCHANGED << project, clock, tracker >>

NetlifyNext ==
    \/ CalculateBoth
    \/ IsBusinessDayBoth

NetlifySpec == NetlifyInit /\ [][NetlifyNext]_vars

\* ------------------------------------------------------------------ claims
\* Vocabulary of the claims.
Index(phase) == CHOOSE i \in DOMAIN PHASE_ORDER : PHASE_ORDER[i] = phase

MirrorPartner(phase) ==
    CASE phase = "fqa"   -> "build"
      [] phase = "build" -> "fqa"
      [] phase = "com"   -> "rfa"
      [] phase = "rfa"   -> "com"
      [] OTHER           -> NULL

IsMirror(phase) == phase \in {"fqa", "com"}

IsSkipped(phase, days) == phase = "wayleave" /\ days[phase] = 0

\* The cursor a phase is counted from: the deadline of the nearest phase
\* before it, after position `from`, that is neither a mirror nor a skipped
\* wayleave; the starting date when there is none.
CursorOf(phase, from, start, result, days) ==
    LET counted == { j \in (from + 1) .. (Index(phase) - 1) :
                       ~IsMirror(PHASE_ORDER[j]) /\ ~IsSkipped(PHASE_ORDER[j], days) }
    IN  IF counted = {} THEN start
        ELSE result[PHASE_ORDER[CHOOSE j \in counted : \A k \in counted : k <= j]]

\* The deadlines of materials and every later phase.
Downstream(result) ==
    [ p \in { q \in DOMAIN result : Index(q) > Index("wayleave") } |-> result[p] ]

LastWasUpdate == last.op = "update"

LastOverride == last.newDeadline[1]

\* The request carried allowedDays for phases and nothing else.
DurationOnlyRequest ==
    /\ LastWasUpdate
    /\ ~last.req.hasSiteSurveyDate
    /\ Len(last.req.phases) > 0
    /\ \A k \in DOMAIN last.req.phases :
          /\ last.req.phases[k].phaseName \in PhaseName
          /\ last.req.phases[k].hasAllowedDays
          /\ ~last.req.phases[k].hasDeadline

\* The request carried a site-survey date and one deadline, from a super admin.
AnchorAndOverrideRequest ==
    /\ LastWasUpdate
    /\ last.req.role = "superadmin"
    /\ last.req.hasSiteSurveyDate
    /\ Len(last.req.phases) = 1
    /\ last.req.phases[1].hasDeadline

\* C1: after creation and after every update the stored deadline of fqa
\* equals that of build, and the stored deadline of com equals that of rfa.
MirrorInvariant ==
    /\ deadline["fqa"] = deadline["build"]
    /\ deadline["com"] = deadline["rfa"]

\* C1 witness: a second update that overrides the mirror phase fqa itself and
\* moves it, on a project whose fqa carries allowedDays of its own.
MirrorWitness ==
    /\ requests = MaxRequests
    /\ last.mode = "targeted"
    /\ last.changedPhase = "fqa"
    /\ allowedDays["fqa"] > 0
    /\ deadline["fqa"] # last.currentDeadlines["build"]

\* C2: a full recalculation with wayleave allowedDays = 0 returns no deadline
\* for wayleave, and materials' deadline is addBusinessDays(funding's
\* deadline, materials' allowedDays).
SkipInvariant ==
    (last.mode = "full" /\ allowedDays["wayleave"] = 0) =>
        /\ "wayleave" \notin DOMAIN last.finalDeadlines
        /\ last.finalDeadlines["materials"] =
              addBusinessDays(last.finalDeadlines["funding"], allowedDays["materials"])

\* C2 witness: a full recalculation by an update with wayleave skipped and
\* materials strictly after funding.
SkipWitness ==
    /\ LastWasUpdate
    /\ last.mode = "full"
    /\ allowedDays["wayleave"] = 0
    /\ last.finalDeadlines["materials"] > last.finalDeadlines["funding"]

\* C3: while wayleave's allowedDays is 0, the deadlines of materials and all
\* later phases after a recalculation depend neither on the deadline wayleave
\* holds nor on a deadline given for wayleave in a targeted override.
SkippedWayleaveNeverCounts ==
    (last.mode = "targeted" /\ allowedDays["wayleave"] = 0) =>
        /\ last.changedPhase # "wayleave" =>
              \A d \in OverrideDates :
                  Downstream(calculatePhaseDeadlinesFromDeadline(
                      last.changedPhase, LastOverride, allowedDays,
                      [ last.currentDeadlines EXCEPT !["wayleave"] = d ]))
                    = Downstream(last.finalDeadlines)
        /\ last.changedPhase = "wayleave" =>
              \A d \in OverrideDates :
                  Downstream(calculatePhaseDeadlinesFromDeadline(
                      "wayleave", d, allowedDays, last.currentDeadlines))
                    = Downstream(last.finalDeadlines)

\* C4: a targeted override of phase P with date D gives P the deadline
\* start-of-day D, and gives the same deadline to P's mirror partner when P
\* is build, fqa, rfa or com.
OverrideSetsPhaseAndPartner ==
    last.mode = "targeted" =>
        /\ last.finalDeadlines[last.changedPhase] = startOfDay(LastOverride)
        /\ MirrorPartner(last.changedPhase) # NULL =>
              last.finalDeadlines[MirrorPartner(last.changedPhase)]
                = startOfDay(LastOverride)

\* C4 witness: an override of com with a date that is not at start of day.
OverrideWitness ==
    /\ last.mode = "targeted"
    /\ last.changedPhase = "com"
    /\ LastOverride # startOfDay(LastOverride)
    /\ last.finalDeadlines["rfa"] # last.currentDeadlines["rfa"]

\* C5: after a targeted override of P with D every phase after P is chained
\* from D: a mirror takes its source's deadline, a skipped wayleave is passed
\* over, any other phase gets addBusinessDays(cursor, its allowedDays), the
\* cursor being D at first and then the last deadline so computed.
OverrideChainsDownstream ==
    last.mode = "targeted" =>
        \A q \in PhaseName :
            Index(q) > Index(last.changedPhase) =>
                IF IsMirror(q)
                THEN last.finalDeadlines[q] = last.finalDeadlines[MIRROR_PHASES[q]]
                ELSE IF IsSkipped(q, allowedDays)
                THEN last.finalDeadlines[q] = last.currentDeadlines[q]
                ELSE last.finalDeadlines[q] =
                        addBusinessDays(
                            CursorOf(q, Index(last.changedPhase),
                                     startOfDay(LastOverride),
                                     last.finalDeadlines, allowedDays),
                            allowedDays[q])

\* C5 witness: build overridden; ecc and integration follow it by their own
\* allowedDays, each strictly later than the one before.
ChainWitness ==
    /\ last.mode = "targeted"
    /\ last.changedPhase = "build"
    /\ last.finalDeadlines["fqa"] = startOfDay(LastOverride)
    /\ last.finalDeadlines["ecc"] > startOfDay(LastOverride)
    /\ last.finalDeadlines["integration"] > last.finalDeadlines["ecc"]

\* C6: a targeted override of any phase P leaves the deadline of every phase
\* before P as it is in currentDeadlines.
OverrideKeepsAllPredecessors ==
    last.mode = "targeted" =>
        \A q \in PhaseName :
            Index(q) < Index(last.changedPhase) =>
                last.finalDeadlines[q] = last.currentDeadlines[q]

\* C6 as amended: a targeted override of P leaves the deadline of every phase
\* before P as it is in currentDeadlines, except P's mirror partner (build
\* when P is fqa, rfa when P is com), which takes the new deadline.
OverrideKeepsOtherPredecessors ==
    last.mode = "targeted" =>
        \A q \in PhaseName :
            (Index(q) < Index(last.changedPhase)
               /\ q # MirrorPartner(last.changedPhase)) =>
                last.finalDeadlines[q] = last.currentDeadlines[q]

\* C6 witness: fqa overridden on a project whose earlier phases were
\* themselves set by an earlier override; build moves with fqa.
KeepsPredecessorsWitness ==
    /\ requests = MaxRequests
    /\ last.mode = "targeted"
    /\ last.changedPhase = "fqa"
    /\ last.finalDeadlines["build"] # last.currentDeadlines["build"]
    /\ last.finalDeadlines["kickoff"] > last.finalDeadlines["build"]

\* C7: an update with both a new site-survey date and one super-admin
\* deadline override recalculates from the overridden phase, stores the given
\* date (at start of day) for it, keeps the phases before it, and stores the
\* new site-survey date.
OverrideBeatsAnchor ==
    AnchorAndOverrideRequest =>
        /\ last.mode = "targeted"
        /\ last.changedPhase = last.req.phases[1].phaseName
        /\ deadline[last.changedPhase] = startOfDay(last.req.phases[1].deadline)
        /\ siteSurveyDate = last.req.siteSurveyDate
        /\ \A q \in PhaseName :
              (Index(q) < Index(last.changedPhase)
                 /\ q # MirrorPartner(last.changedPhase)) =>
                  deadline[q] = last.currentDeadlines[q]

\* C7 witness: the site-survey date changes and materials is overridden in
\* the same request; planning keeps a deadline that the new date would move.
OverrideBeatsAnchorWitness ==
    /\ AnchorAndOverrideRequest
    /\ last.changedPhase = "materials"
    /\ siteSurveyDate # last.prevSiteSurveyDate
    /\ deadline["planning"] #
          calculatePhaseDeadlines(siteSurveyDate, allowedDays)["planning"]

\* C8: an update that changes only allowedDays stores, for every phase, the
\* deadline calculatePhaseDeadlines(site-survey date, updated table) returns.
DurationChangeStoresFullResult ==
    DurationOnlyRequest =>
        \A p \in PhaseName :
            /\ p \in DOMAIN calculatePhaseDeadlines(siteSurveyDate, allowedDays)
            /\ deadline[p] = calculatePhaseDeadlines(siteSurveyDate, allowedDays)[p]

\* C8 as amended: an update that changes only allowedDays stores, for every
\* phase calculatePhaseDeadlines(site-survey date, updated table) returns a
\* deadline for, that deadline; a skipped wayleave, for which it returns
\* none, is stored with the site-survey date.
DurationChangeStoresReturned ==
    DurationOnlyRequest =>
        \A p \in PhaseName :
            IF p \in DOMAIN calculatePhaseDeadlines(siteSurveyDate, allowedDays)
            THEN deadline[p] = calculatePhaseDeadlines(siteSurveyDate, allowedDays)[p]
            ELSE p = "wayleave" /\ allowedDays[p] = 0
                   /\ deadline[p] = siteSurveyDate

\* C8 witness: a duration-only update after an earlier update, replacing the
\* deadline planning held before.
DurationChangeWitness ==
    /\ DurationOnlyRequest
    /\ requests = MaxRequests
    /\ last.currentDeadlines["planning"] # deadline["planning"]
    /\ allowedDays["wayleave"] > 0

\* C9: in a full recalculation the cursor starts at the site-survey date; a
\* mirror takes its source's deadline, a skipped wayleave gets none, any other
\* phase gets addBusinessDays(cursor, its allowedDays) and becomes the cursor.
FullRecalculationChains ==
    last.mode = "full" =>
        \A q \in PhaseName :
            IF IsMirror(q)
            THEN last.finalDeadlines[q] = last.finalDeadlines[MIRROR_PHASES[q]]
            ELSE IF IsSkipped(q, allowedDays)
            THEN q \notin DOMAIN last.finalDeadlines
            ELSE last.finalDeadlines[q] =
                    addBusinessDays(
                        CursorOf(q, 0, startOfDay(siteSurveyDate),
                                 last.finalDeadlines, allowedDays),
                        allowedDays[q])

\* C9 witness: a full recalculation by an update in which planning lies after
\* the site-survey date and ecc after build.
FullRecalculationWitness ==
    /\ LastWasUpdate
    /\ last.mode = "full"
    /\ last.finalDeadlines["planning"] > startOfDay(siteSurveyDate)
    /\ last.finalDeadlines["ecc"] > last.finalDeadlines["build"]
    /\ last.finalDeadlines["ecc"] =
          addBusinessDays(last.finalDeadlines["fqa"], allowedDays["ecc"])

\* C10: applying the same site-survey-date update a second time leaves the
\* stored site-survey date, allowedDays and deadlines as the first left them.
AnchorChangeIdempotent ==
    (LastWasUpdate /\ last.req.hasSiteSurveyDate /\ last.req.phases = << >>) =>
        LET again == recalculation(last.req, siteSurveyDate, allowedDays, deadline)
        IN  /\ again.mode = "full"
            /\ again.siteSurveyDate = siteSurveyDate
            /\ again.currentAllowedDays = allowedDays
            /\ storedDeadlines(again.finalDeadlines, again.siteSurveyDate) = deadline

\* C10 witness: a site-survey-date update that moved the date and the
\* deadlines of a project an earlier update had changed.
AnchorChangeWitness ==
    /\ LastWasUpdate
    /\ last.req.hasSiteSurveyDate
    /\ last.req.phases = << >>
    /\ requests = MaxRequests
    /\ siteSurveyDate # last.prevSiteSurveyDate
    /\ deadline # last.currentDeadlines

\* ------------------------------------------- claims on the businessDays calls
\* Vocabulary of the calendar claims.
DayOf(date) == date \div TicksPerDay

\* The business days d with a < d <= b, as calendar day numbers.
BusinessDaysWithin(a, b) ==
    { d \in (DayOf(a) + 1) .. DayOf(b) :
        ~isWeekend(d * TicksPerDay) /\ ~isPublicHoliday(d * TicksPerDay) }

Called(fn) == call.fn = fn

\* C11: addBusinessDays(d, n) with n <= 0 returns the start of day d, whatever
\* kind of day d is.
NonPositiveAddReturnsStartOfDay ==
    (Called("addBusinessDays") /\ call.b <= 0)
        => /\ call.result = startOfDay(call.a)
           /\ isSameDay(call.result, call.a)
           /\ call.result % TicksPerDay = 0

\* A call with n <= 0 on a weekend day or holiday, not at midnight.
NonPositiveAddWitness ==
    /\ Called("addBusinessDays")
    /\ call.b <= 0
    /\ ~isBusinessDay(call.a)
    /\ call.a % TicksPerDay # 0

\* C12: from a business day d, addBusinessDays(d, 1) is later than d and is a
\* business day: no Saturday, no Sunday, no holiday.
NextBusinessDayIsLaterBusinessDay ==
    (Called("addBusinessDays") /\ call.b = 1 /\ isBusinessDay(call.a))
        => /\ call.result > call.a
           /\ isBusinessDay(call.result)
           /\ getDay(call.result) \notin {0, 6}
           /\ ~isPublicHoliday(call.result)

\* A call with n = 1 from a business day whose next calendar day is none.
NextBusinessDayWitness ==
    /\ Called("addBusinessDays")
    /\ call.b = 1
    /\ isBusinessDay(call.a)
    /\ ~isBusinessDay(addDays(call.a, 1))
    /\ DayOf(call.result) > DayOf(call.a) + 1

\* C13: for n >= 1, addBusinessDays(d, n) is the n-th business day after d:
\* d is not counted, the result is a business day, and
\* getBusinessDaysBetween(d, result) is n.
AddReturnsNthBusinessDay ==
    (Called("addBusinessDays") /\ call.b >= 1)
        => /\ isBusinessDay(call.result)
           /\ call.result = startOfDay(call.result)
           /\ DayOf(call.result) > DayOf(call.a)
           /\ Cardinality(BusinessDaysWithin(call.a, call.result)) = call.b
           /\ getBusinessDaysBetween(call.a, call.result) = call.b

\* A call with n >= 2 from a business day, across days that are not counted.
AddNthWitness ==
    /\ Called("addBusinessDays")
    /\ call.b >= 2
    /\ isBusinessDay(call.a)
    /\ DayOf(call.result) - DayOf(call.a) > call.b

\* C14: getBusinessDaysBetween(a, b) is the negative of
\* getBusinessDaysBetween(b, a).
BetweenAntisymmetric ==
    Called("getBusinessDaysBetween")
        => call.result = -getBusinessDaysBetween(call.b, call.a)

\* A call whose end date lies days before its start date.
BetweenAntisymmetricWitness ==
    /\ Called("getBusinessDaysBetween")
    /\ call.result < -1
    /\ call.a % TicksPerDay # call.b % TicksPerDay

\* C15: for a before b, getBusinessDaysBetween(a, b) is the number of business
\* days d with a < d <= b; on the same calendar day it is 0.
BetweenCountsAfterStartThroughEnd ==
    Called("getBusinessDaysBetween")
        => /\ (isBefore(call.a, call.b) /\ ~isSameDay(call.a, call.b))
                => call.result = Cardinality(BusinessDaysWithin(call.a, call.b))
           /\ isSameDay(call.a, call.b) => call.result = 0

\* A call from a business day to a later business day, with days between
\* them that are not counted.
BetweenCountWitness ==
    /\ Called("getBusinessDaysBetween")
    /\ isBefore(call.a, call.b)
    /\ isBusinessDay(call.a)
    /\ isBusinessDay(call.b)
    /\ call.result >= 2
    /\ call.result < DayOf(call.b) - DayOf(call.a)

\* C16: the sign of getBusinessDaysUntil(deadline) tells where the deadline
\* lies: positive on a later calendar day than today, negative on an earlier
\* one, and zero exactly when the deadline is today.
UntilSignClassifiesDeadline ==
    Called("getBusinessDaysUntil")
        => /\ DayOf(call.a) > DayOf(call.at) => call.result > 0
           /\ DayOf(call.a) < DayOf(call.at) => call.result < 0
           /\ call.result = 0 <=> DayOf(call.a) = DayOf(call.at)

\* The deadline is the business day right before today, a business day.
DeadlineIsPrecedingBusinessDay ==
    /\ isBusinessDay(call.at)
    /\ isBusinessDay(call.a)
    /\ DayOf(call.a) < DayOf(call.at)
    /\ BusinessDaysWithin(call.a, call.at) = { DayOf(call.at) }

\* C17: getBusinessDaysUntil(deadline) is getBusinessDaysBetween(today,
\* deadline): 0 when the deadline is today, -1 when it is the business day
\* right before today.
UntilEqualsBetweenFromToday ==
    Called("getBusinessDaysUntil")
        => /\ call.result = getBusinessDaysBetween(call.at, call.a)
           /\ isSameDay(call.a, call.at) => call.result = 0
           /\ DeadlineIsPrecedingBusinessDay => call.result = -1

\* A deadline on the last business day before today, with a long weekend
\* between the two.
UntilOverdueWitness ==
    /\ Called("getBusinessDaysUntil")
    /\ DeadlineIsPrecedingBusinessDay
    /\ DayOf(call.at) - DayOf(call.a) > 1

\* Indices of the fixed holidays whose date in the year is the given weekday.
FixedHolidaysOn(year, weekday) ==
    { i \in DOMAIN fixedHolidays :
        getDay(NewDate(year, fixedHolidays[i][1], fixedHolidays[i][2])) = weekday }

FixedDate(year, i) == NewDate(year, fixedHolidays[i][1], fixedHolidays[i][2])

\* C18: when a fixed holiday falls on a Sunday, the Monday after it is in
\* getSAPublicHolidays(year) and is no business day.
SundayHolidayObservedOnMonday ==
    Called("getSAPublicHolidays")
        => \A i \in FixedHolidaysOn(call.a, 0) :
              /\ addDays(FixedDate(call.a, i), 1) \in call.result
              /\ isPublicHoliday(addDays(FixedDate(call.a, i), 1))
              /\ ~isBusinessDay(addDays(FixedDate(call.a, i), 1))

\* The holidays of a year with a Sunday holiday whose Monday no other rule
\* makes a holiday.
SundayHolidayWitness ==
    /\ Called("getSAPublicHolidays")
    /\ \E i \in FixedHolidaysOn(call.a, 0) :
          \A j \in DOMAIN fixedHolidays :
              FixedDate(call.a, j) # addDays(FixedDate(call.a, i), 1)

\* C19: when a fixed holiday falls on a Sunday, the Sunday date itself stays
\* in the holiday set, and isPublicHoliday holds for it.
SundayHolidayStaysInSet ==
    Called("getSAPublicHolidays")
        => \A i \in FixedHolidaysOn(call.a, 0) :
              /\ FixedDate(call.a, i) \in call.result
              /\ isPublicHoliday(FixedDate(call.a, i))

\* C19, as the code has it: a fixed holiday on a Sunday is entered on the
\* following Monday instead; the Sunday date is not in the set and
\* isPublicHoliday is false for it, though it is no business day.
SundayHolidayMovedToMonday ==
    Called("getSAPublicHolidays")
        => \A i \in FixedHolidaysOn(call.a, 0) :
              /\ FixedDate(call.a, i) \notin call.result
              /\ ~isPublicHoliday(FixedDate(call.a, i))
              /\ ~isBusinessDay(FixedDate(call.a, i))
              /\ addDays(FixedDate(call.a, i), 1) \in call.result

\* The holidays of a year whose Christmas Day is a Sunday: its Monday is
\* the Day of Goodwill.
SundayHolidayMovedWitness ==
    /\ Called("getSAPublicHolidays")
    /\ \E i \in FixedHolidaysOn(call.a, 0) :
          /\ FixedDate(call.a, i) \notin call.result
          /\ \E j \in DOMAIN fixedHolidays :
                FixedDate(call.a, j) = addDays(FixedDate(call.a, i), 1)

\* The holidays of the year that do not come from fixed holiday i.
OtherHolidays(year, i) ==
    { observedFixedHoliday(year, fixedHolidays[j]) :
        j \in DOMAIN fixedHolidays \ {i} }
      \cup { startOfDay(getGoodFriday(year)), startOfDay(getFamilyDay(year)) }

\* The date is a holiday by a rule other than fixed holiday i of the year.
HolidayInOwnRight(date, year, i) ==
    date \in OtherHolidays(getYear(date), IF getYear(date) = year THEN i ELSE 0)

\* C20: a fixed holiday on a Saturday stays on its Saturday; the Friday before
\* and the Monday after are business days unless another rule makes them
\* holidays.
SaturdayHolidayNotShifted ==
    Called("getSAPublicHolidays")
        => \A i \in FixedHolidaysOn(call.a, 6) :
              LET saturday == FixedDate(call.a, i)
                  friday   == addDays(saturday, -1)
                  monday   == addDays(saturday, 2)
              IN  /\ saturday \in call.result
                  /\ isPublicHoliday(saturday)
                  /\ friday \in call.result => HolidayInOwnRight(friday, call.a, i)
                  /\ monday \in call.result => HolidayInOwnRight(monday, call.a, i)
                  /\ isBusinessDay(friday) <=> ~HolidayInOwnRight(friday, call.a, i)
                  /\ isBusinessDay(monday) <=> ~HolidayInOwnRight(monday, call.a, i)

\* The holidays of a year with a Saturday holiday whose Monday is a holiday
\* by another rule.
SaturdayHolidayWitness ==
    /\ Called("getSAPublicHolidays")
    /\ \E i \in FixedHolidaysOn(call.a, 6) :
          /\ FixedDate(call.a, i) \in call.result
          /\ addDays(FixedDate(call.a, i), 2) \in call.result
          /\ isBusinessDay(addDays(FixedDate(call.a, i), -1))

\* ------------------------------------------------ claims on stored durations
\* The stored durations with those of the mirror phases put to 0.
MirrorDaysZeroed == [ allowedDays EXCEPT !["fqa"] = 0, !["com"] = 0 ]

\* What the last recalculation returns when it is given MirrorDaysZeroed.
FinalDeadlinesWithMirrorDaysZeroed ==
    CASE last.mode = "targeted" ->
           calculatePhaseDeadlinesFromDeadline(last.changedPhase, LastOverride,
               MirrorDaysZeroed, last.currentDeadlines)
      [] last.mode = "full" ->
           calculatePhaseDeadlines(siteSurveyDate, MirrorDaysZeroed)
      [] OTHER -> last.finalDeadlines

\* The durations of fqa and com have no part in the deadlines last computed.
MirrorDaysWithoutInfluence ==
    last.finalDeadlines = FinalDeadlinesWithMirrorDaysZeroed

\* C21: after creation and after every accepted update the stored allowedDays
\* of fqa and of com is 0, and their value has no part in any computed
\* deadline.
MirrorAllowedDaysStayZero ==
    /\ allowedDays["fqa"] = 0
    /\ allowedDays["com"] = 0
    /\ MirrorDaysWithoutInfluence

\* ------------------------------------------------ claims on the engine loops
EngineRunning ==
    call.fn \in {"calculatePhaseDeadlines", "calculatePhaseDeadlinesFromDeadline"}

UnresolvedMirrorNeedsCorruptOrder ==
    (EngineRunning /\ call.unresolved)
        => /\ call.a # PHASE_ORDER
           /\ call.fn = "calculatePhaseDeadlines"

\* With PHASE_ORDER as it is, the loop run step by step returns what the
\* function returns.
StepwiseLoopAgrees ==
    (EngineRunning /\ call.status = "returned" /\ call.a = PHASE_ORDER
       /\ call.fn = "calculatePhaseDeadlines")
        => \E date \in AnchorDates :
              call.result.deadlines = calculatePhaseDeadlines(date, allowedDays)

\* -------------------------------------------- claims on concurrent updates
BothDone == \A h \in Handlers : handlers[h].pc = "done"

\* The project rows before either request: the copy of a handler that read
\* before any write.
RowsBefore ==
    handlers[CHOOSE h \in Handlers : handlers[h].readAfter = 0].copy

\* The rows after request r1 and then request r2, each handled alone.
OneAfterTheOther(r1, r2, rows) ==
    LET mid == patchedProject(r1, rows, rows[1])
    IN  patchedProject(r2, mid, mid[1])

\* C23: two concurrent updates of a project leave the anchor date, durations
\* and deadlines that the two updates leave when run one after the other in
\* some order.
ConcurrentUpdatesSerialize ==
    BothDone =>
        << siteSurveyDate, allowedDays, deadline >> \in
            { OneAfterTheOther(handlers[1].request, handlers[2].request, RowsBefore),
              OneAfterTheOther(handlers[2].request, handlers[1].request, RowsBefore) }

\* --------------------------------------------------- claims on completion
\* C27: after any sequence of complete and uncomplete requests, build and fqa
\* are complete together and rfa and com are complete together.
CompletionMirrored ==
    /\ isComplete["build"] = isComplete["fqa"]
    /\ isComplete["rfa"] = isComplete["com"]

\* The phases that count towards completion.
CountedPhases ==
    { p \in PhaseName :
        p \notin {"fqa", "com"} /\ ~(p = "wayleave" /\ allowedDays[p] = 0) }

\* C28: the project list gives the status 'complete' exactly when every phase
\* that counts towards completion is complete.
StatusCompleteIffAllCounted ==
    call.fn = "list"
        => (call.result = "complete" <=> \A p \in CountedPhases : isComplete[p])

\* ------------------------------------------------- claims on notifications
\* The phases generateNotificationsForUser gives a type: not complete, and no
\* skipped wayleave.
NotifiedPhases ==
    { p \in PhaseName : ~isComplete[p] /\ ~(p = "wayleave" /\ allowedDays[p] = 0) }

\* getBusinessDaysUntil of the phase's deadline when the notifications were
\* generated.
DaysUntilThen(p) == getBusinessDaysUntil(deadline[p], call.at)

\* C24: for an incomplete phase that is not skipped, a result below 0 gives an
\* overdue notification, 0 or 1 an urgent one, 2 or 3 a warning, and above 3
\* none.
NotificationThresholds ==
    call.fn = "notifications"
        => \A p \in NotifiedPhases :
              notifications[call.result][p] =
                  CASE DaysUntilThen(p) < 0        -> "overdue"
                    [] DaysUntilThen(p) \in {0, 1} -> "urgent"
                    [] DaysUntilThen(p) \in {2, 3} -> "warning"
                    [] OTHER                       -> NULL

\* Notifications generated for phases of every class: overdue, due today, due
\* in 1, 2 and 3 business days, and later.
NotificationThresholdsWitness ==
    /\ call.fn = "notifications"
    /\ \A v \in 0 .. 3 : \E p \in NotifiedPhases : DaysUntilThen(p) = v
    /\ \E p \in NotifiedPhases : DaysUntilThen(p) < 0
    /\ \E p \in NotifiedPhases : DaysUntilThen(p) > 3

\* ----------------------------------------------------------- claims on roles
\* The last request changed a role: call.a is the role in the caller's token,
\* call.b the role the target had, call.result the role it has now.
RoleChanged == call.fn = "role" /\ call.status = 200

\* C25: a role change made by an admin neither makes its target an admin nor
\* takes the admin role from an admin.
AdminNeverChangesAdmins ==
    (RoleChanged /\ call.a = "admin")
        => /\ call.result # "admin"
           /\ call.b # "admin"

\* C29: after any sequence of role changes and deletions at least one user
\* has the role superadmin.
SuperAdminRemains ==
    \E u \in UserIds : users[u] = "superadmin"

\* --------------------------------------------- claims on overrides and roles
\* The last update came from a caller that is no super admin and carried a
\* deadline for a phase.
DeadlineFromNonSuperAdmin ==
    /\ last.op = "update"
    /\ last.req.role # "superadmin"
    /\ \E k \in DOMAIN last.req.phases :
          /\ last.req.phases[k].phaseName \in PhaseName
          /\ last.req.phases[k].hasDeadline

\* The last request carried a site-survey date or allowedDays of a phase.
AnchorOrDurationsSupplied ==
    \/ last.req.hasSiteSurveyDate
    \/ \E k \in DOMAIN last.req.phases :
          /\ last.req.phases[k].phaseName \in PhaseName
          /\ last.req.phases[k].hasAllowedDays

\* C26: a deadline in an update from a caller that is no super admin has no
\* effect: the stored deadlines are the full calculation from the site-survey
\* date when the request carried that date or allowedDays, and the deadlines
\* stored before otherwise.
NonSuperAdminDeadlineIgnored ==
    DeadlineFromNonSuperAdmin =>
        IF AnchorOrDurationsSupplied
        THEN deadline = storedDeadlines(
                            calculatePhaseDeadlines(siteSurveyDate, allowedDays),
                            siteSurveyDate)
        ELSE deadline = last.existingDeadlines

\* C26 witness: an admin has sent a deadline that differs from the one the
\* phase keeps, once alone and once beside allowedDays or a site-survey date.
NonSuperAdminDeadlineWitness ==
    /\ DeadlineFromNonSuperAdmin
    /\ AnchorOrDurationsSupplied
    /\ deadline # last.existingDeadlines
    /\ \A k \in DOMAIN last.req.phases :
          last.req.phases[k].hasDeadline =>
              deadline[last.req.phases[k].phaseName]
                  # startOfDay(last.req.phases[k].deadline)

\* ------------------------------------------------ claims on the Netlify copy
\* C30: for a start-of-day site-survey date and a duration table the Netlify
\* calculatePhaseDeadlines gives every phase the server's function gives a
\* deadline the same calendar day.
NetlifyEngineAgrees ==
    Called("calculatePhaseDeadlines") =>
        \A p \in DOMAIN call.server :
            DayOf(call.result[p]) = DayOf(call.server[p])

EasterMonday(date) == DayOf(date) = DayOf(addDays(getEasterSunday(getYear(date)), 1))

\* The two isBusinessDay functions differ on Easter Monday and nowhere else.
BusinessDayCopiesDifferOnEasterMonday ==
    Called("isBusinessDay") =>
        (call.result # call.server <=> EasterMonday(call.a))

\* With no Easter Monday after the site-survey date up to the last deadline,
\* the two engines agree.
EnginesAgreeAwayFromEasterMonday ==
    (/\ Called("calculatePhaseDeadlines")
     /\ \A d \in (DayOf(call.a) + 1) .. DayOf(call.result["com"]) :
           ~EasterMonday(d * TicksPerDay))
        => \A p \in DOMAIN call.server : call.result[p] = call.server[p]

====
